---- MODULE Spec2Model ----
(***************************************************************************)
(* The Debate Day MCP server: the in-memory store (mcp_server/db.py) and   *)
(* the request handlers of the coordination service                        *)
(* (mcp_server/routes.py).  The handlers are `async def` coroutines that   *)
(* never await, so on the server's single event loop each one runs from    *)
(* its first statement to its response without interleaving: one action    *)
(* per handler.  Requests of concurrent clients are in flight in `pending` *)
(* and are served in any order.                                            *)
(*                                                                         *)
(* The DebateController (controller/debate_controller.py), the in-process  *)
(* driver of a debate with its own message list and DebateContext, is a    *)
(* second program: it is modelled by the variable `controller` and the     *)
(* calls made on it, and shares nothing with the server's store.           *)
(*                                                                         *)
(* The participant processes (agents/pro/main.py, run with ROLE pro or     *)
(* con, and agents/mod/main.py) are clients of the server: each is a loop  *)
(* that polls the turn and submits when the turn is its own; `loop` holds  *)
(* the position of each.                                                   *)
(***************************************************************************)
EXTENDS Integers, Sequences, FiniteSets, TLC

VARIABLES
    debate_sessions,  \* db.debate_sessions : debate_id -> DebateSession
    debate_messages,  \* db.debate_messages : debate_id -> list of MCPMessageRecord
    agent_turns,      \* db.agent_turns     : debate_id -> AgentTurn
    pending,          \* client -> the request it has in flight (or NoReq)
    response,         \* the response the server produced last
    next_uuid,        \* the next value generate_message_id() hands out
    controller,       \* a DebateController object
    returned,         \* the call made last on the controller and its outcome
    loop              \* participant process (its ROLE) -> where its main() is

vars == <<debate_sessions, debate_messages, agent_turns, pending, response, next_uuid,
          controller, returned, loop>>
store == <<debate_sessions, debate_messages, agent_turns>>
server == <<store, pending, response, next_uuid>>

---------------------------------------------------------------------------
(* Bounds of the model *)

\* largest num_rounds a create request carries
MaxNumRounds == 2
\* message identifiers handed out before the model stops accepting: each
\* generate_message_id() value (a uuid4) is new, here the next number
MaxUuid == 7
\* messages a DebateController holds before the model stops adding
MaxMessages == 3

DebateIds == {"d1", "d2"}
Clients == {"c1", "c2"}
Topics == {"T"}
Contents == {"", "x"}
\* AGENT_NAME of the participant processes (a free-text display name)
Senders == {"Ava"}

---------------------------------------------------------------------------
(* protocol: Role, MessageType, SessionStatus *)

None == "None"

PRO == "pro"
CON == "con"
MOD == "mod"
SYSTEM == "system"
Role == {PRO, CON, MOD, SYSTEM}

PENDING == "pending"
ACTIVE == "active"
FINISHED == "finished"

EmptyDict == [k \in {} |-> k]

NoReq == [op |-> "none"]
NoResponse ==
    [client |-> None, request |-> NoReq, status_code |-> 0, detail |-> None,
     body |-> EmptyDict]

---------------------------------------------------------------------------
(* db.py *)

\* debate_sessions[session.debate_id] = session
create_debate_sessions(sessions, session) ==
    (session.debate_id :> session) @@ sessions

\* the log of an identifier that is already known left as it is
create_debate_messages_kept(messages, session) ==
    IF session.debate_id \in DOMAIN messages
    THEN messages
    ELSE (session.debate_id :> <<>>) @@ messages

\* debate_messages[session.debate_id] = []
create_debate_messages(messages, session) ==
    (session.debate_id :> <<>>) @@ messages

\* the status written to a copy that is never stored back
update_debate_status_lost(sessions, debate_id, status) == sessions

update_debate_status(sessions, debate_id, status) ==
    IF debate_id \in DOMAIN sessions
    THEN [sessions EXCEPT ![debate_id].status = status]
    ELSE sessions

set_debate_winner(sessions, debate_id, winner_role) ==
    IF debate_id \in DOMAIN sessions
    THEN [sessions EXCEPT ![debate_id].winner = winner_role]
    ELSE sessions

\* one list shared by all the logs: the message lands in every log
save_message_shared(messages, message) ==
    LET d == message.debate_id
    IN  [k \in DOMAIN messages \cup {d} |->
            Append(IF k \in DOMAIN messages THEN messages[k] ELSE <<>>, message)]

save_message(messages, message) ==
    LET d == message.debate_id
        old == IF d \in DOMAIN messages THEN messages[d] ELSE <<>>
    IN  (d :> Append(old, message)) @@ messages

\* the turn never written
set_agent_turn_dropped(turns, turn) == turns

set_agent_turn(turns, turn) ==
    (turn.debate_id :> turn) @@ turns

---------------------------------------------------------------------------
(* routes.py helpers *)

\* num_rounds=max(0, request.num_rounds - 1)
stored_num_rounds(n) == IF n - 1 > 0 THEN n - 1 ELSE 0

\* a slip in the last-round test: > for >=
_determine_next_speaker_late(num_rounds, current_round, current_role) ==
    IF current_role = PRO THEN CON
    ELSE IF current_role = CON THEN
        IF current_round = 0
        THEN (IF num_rounds = 0 THEN MOD ELSE PRO)
        ELSE IF current_round > num_rounds THEN MOD
        ELSE PRO
    ELSE IF current_role = MOD THEN None
    ELSE PRO

\* the next role, or None after the moderator
_determine_next_speaker(num_rounds, current_round, current_role) ==
    IF current_role = PRO THEN CON
    ELSE IF current_role = CON THEN
        IF current_round = 0
        THEN (IF num_rounds = 0 THEN MOD ELSE PRO)
        ELSE IF current_round >= num_rounds THEN MOD
        ELSE PRO
    ELSE IF current_role = MOD THEN None
    ELSE PRO

\* a slip in the final-round test: <= for <
next_round_after_inclusive(role, current_round, num_rounds) ==
    IF role = CON /\ current_round <= num_rounds
    THEN current_round + 1
    ELSE current_round

\* the round never incremented
next_round_after_never(role, current_round, num_rounds) == current_round

\* next_round: incremented when CON just spoke and it is not the final round
next_round_after(role, current_round, num_rounds) ==
    IF role = CON /\ current_round < num_rounds
    THEN current_round + 1
    ELSE current_round

AgentTurn(debate_id, current_round, next_speaker, last_message_id, is_final_turn) ==
    [debate_id |-> debate_id, current_round |-> current_round,
     next_speaker |-> next_speaker, last_message_id |-> last_message_id,
     is_final_turn |-> is_final_turn]

\* the PENDING -> ACTIVE flip left out
status_after_message_never_active(sessions, message) ==
    IF message.role = MOD
    THEN update_debate_status(sessions, message.debate_id, FINISHED)
    ELSE sessions

\* the message saved, the status update skipped
status_after_message_skipped(sessions, message) == sessions

\* the session table after _update_debate_status_after_message
status_after_message(sessions, message) ==
    LET d == message.debate_id
        debate == sessions[d]
    IN  IF message.role = MOD THEN
            LET fin == update_debate_status(sessions, d, FINISHED)
            IN  IF "winner" \in DOMAIN message.metadata
                THEN set_debate_winner(fin, d, message.metadata.winner)
                ELSE fin
        ELSE IF _determine_next_speaker(debate.num_rounds, message.round, message.role) = None
        THEN update_debate_status(sessions, d, FINISHED)
        ELSE IF debate.status = PENDING
        THEN update_debate_status(sessions, d, ACTIVE)
        ELSE sessions

\* the new turn computed but never stored
turn_after_message_not_stored(sessions, turns, message) == turns

\* is_final_turn left at its default
turn_after_message_final_missing(sessions, turns, message) ==
    LET d == message.debate_id
        debate == sessions[d]
        next_speaker == _determine_next_speaker(debate.num_rounds, message.round, message.role)
    IN  IF message.role = MOD \/ next_speaker = None
        THEN turns
        ELSE set_agent_turn(turns,
                AgentTurn(d,
                          next_round_after(message.role, message.round, debate.num_rounds),
                          next_speaker,
                          message.message_id,
                          FALSE))

\* last_message_id carried over from the turn before
turn_after_message_stale_id(sessions, turns, message) ==
    LET d == message.debate_id
        debate == sessions[d]
        next_speaker == _determine_next_speaker(debate.num_rounds, message.round, message.role)
    IN  IF message.role = MOD \/ next_speaker = None
        THEN turns
        ELSE set_agent_turn(turns,
                AgentTurn(d,
                          next_round_after(message.role, message.round, debate.num_rounds),
                          next_speaker,
                          turns[d].last_message_id,
                          next_speaker = MOD))

\* the turn table after _update_debate_status_after_message
turn_after_message(sessions, turns, message) ==
    LET d == message.debate_id
        debate == sessions[d]
        next_speaker == _determine_next_speaker(debate.num_rounds, message.round, message.role)
    IN  IF message.role = MOD \/ next_speaker = None
        THEN turns
        ELSE set_agent_turn(turns,
                AgentTurn(d,
                          next_round_after(message.role, message.round, debate.num_rounds),
                          next_speaker,
                          message.message_id,
                          next_speaker = MOD))

\* the finished check left out
is_finished_unchecked(debate) == FALSE

\* the finished check testing the wrong status
is_finished_wrong_status(debate) == debate.status = "error"

\* add_message: "Check if debate is finished"
is_finished(debate) == debate.status = FINISHED

\* the turn check left out
not_senders_turn_unchecked(turn, role) == FALSE

\* the turn check waived for the SYSTEM role
not_senders_turn_system_passes(turn, role) ==
    role # SYSTEM /\ turn.next_speaker # role

\* add_message: "Check if it's the sender's turn"
not_senders_turn(turn, role) == turn.next_speaker # role

\* the detail of the HTTPException add_message raises for a request, or OK
OK == "success"
NOT_FOUND == "Debate not found"
DEBATE_FINISHED == "Cannot add messages to a finished debate"
NO_TURN == "No turn information available"
NOT_YOUR_TURN == "It's not your turn to speak"
FAILED_TO_CREATE == "Failed to create debate"

add_message_checks(sessions, turns, request) ==
    IF request.debate_id \notin DOMAIN sessions THEN NOT_FOUND
    ELSE IF is_finished(sessions[request.debate_id]) THEN DEBATE_FINISHED
    ELSE IF request.debate_id \notin DOMAIN turns THEN NO_TURN
    ELSE IF not_senders_turn(turns[request.debate_id], request.role) THEN NOT_YOUR_TURN
    ELSE OK

status_code_of(detail) ==
    IF detail = OK THEN 200
    ELSE IF detail = NOT_FOUND THEN 404
    ELSE 400

\* add_message: message type from role and round
message_type_of(role, current_round) ==
    IF role = MOD THEN "verdict"
    ELSE IF current_round > 0 THEN "rebuttal"
    ELSE IF role = CON THEN "counter"
    ELSE "argument"

MCPMessageRecord(debate_id, message_id, sender, role, round, content, message_type, metadata) ==
    [debate_id |-> debate_id, message_id |-> message_id, sender |-> sender,
     role |-> role, round |-> round, content |-> content,
     message_type |-> message_type, metadata |-> metadata]

---------------------------------------------------------------------------
(* protocol/mcp.py: DebateProtocol and DebateContext *)

\* the values of MessageType
MessageTypeValues ==
    {"argument", "counter_argument", "rebuttal", "evaluation", "topic", "result", "error"}

\* f"rebuttal_{round_number}"
rebuttal_tag(round_number) ==
    IF round_number = 1 THEN "rebuttal_1"
    ELSE IF round_number = 2 THEN "rebuttal_2"
    ELSE IF round_number = 3 THEN "rebuttal_3"
    ELSE "rebuttal_n"

\* DebateProtocol.format_message: `optional` holds those of round, agent_id
\* and side that are not None
format_message(message_type, content, metadata, optional) ==
    [type |-> message_type, content |-> content, metadata |-> metadata] @@ optional

topic_message(topic) ==
    format_message("topic", topic, [description |-> "Debate topic"], EmptyDict)

argument_message(content, side, agent_id, round_number) ==
    format_message(IF round_number = 0 THEN "argument" ELSE "rebuttal",
                   content,
                   [type |-> IF round_number = 0 THEN "initial"
                             ELSE rebuttal_tag(round_number)],
                   [round |-> round_number, agent_id |-> agent_id, side |-> side])

evaluation_message(content, winner, agent_id) ==
    format_message("evaluation", content, [winner |-> winner], [agent_id |-> agent_id])

\* DebateProtocol.parse_message raises ValueError unless this holds
is_protocol_message(message) ==
    /\ "type" \in DOMAIN message
    /\ "content" \in DOMAIN message
    /\ message.type \in MessageTypeValues

\* DebateProtocol.parse_message: the validated copy
parse_message(message) ==
    [k \in {"type", "content", "metadata"}
            \cup (DOMAIN message \cap {"round", "agent_id", "side"}) |->
        IF k = "metadata"
        THEN (IF "metadata" \in DOMAIN message THEN message.metadata ELSE EmptyDict)
        ELSE message[k]]

\* DebateContext.__init__
DebateContext(topic) ==
    [topic |-> topic, messages |-> <<>>, current_round |-> 0, max_rounds |-> 0]

\* DebateContext.add_message
DebateContext_add_message(self, message) ==
    LET validated == parse_message(message)
    IN  [self EXCEPT
            !.messages = Append(@, validated),
            !.current_round =
                IF "round" \in DOMAIN validated /\ validated.round > @
                THEN validated.round ELSE @]

---------------------------------------------------------------------------
(* controller/debate_controller.py *)

DONE == "done"
AgentTurnValues == {PRO, CON, MOD, DONE}

\* a slip in the last-round test: > for >=
next_agent_late(turn, round_number, max_rounds) ==
    IF turn = DONE THEN <<DONE, round_number>>
    ELSE IF turn = PRO THEN <<CON, round_number>>
    ELSE IF turn = CON THEN
        IF round_number = 0
        THEN (IF max_rounds = 0 THEN <<MOD, 0>> ELSE <<PRO, 1>>)
        ELSE IF round_number > max_rounds THEN <<MOD, round_number>>
        ELSE <<PRO, round_number + 1>>
    ELSE <<DONE, round_number>>

\* the early return at DONE left out, and DONE falling into the sequence
next_agent_done_restarts(turn, round_number, max_rounds) ==
    IF turn = PRO THEN <<CON, round_number>>
    ELSE IF turn = CON THEN
        IF round_number = 0
        THEN (IF max_rounds = 0 THEN <<MOD, 0>> ELSE <<PRO, 1>>)
        ELSE IF round_number >= max_rounds THEN <<MOD, round_number>>
        ELSE <<PRO, round_number + 1>>
    ELSE IF turn = MOD THEN <<DONE, round_number>>
    ELSE <<PRO, round_number + 1>>

\* con always handing over to the moderator: no rebuttal rounds
next_agent_no_rebuttals(turn, round_number, max_rounds) ==
    IF turn = DONE THEN <<DONE, round_number>>
    ELSE IF turn = PRO THEN <<CON, round_number>>
    ELSE IF turn = CON THEN <<MOD, round_number>>
    ELSE <<DONE, round_number>>

\* DebateController.next_agent: <<next_turn, next_round>> from the
\* controller's turn, round_number and max_rounds
next_agent(turn, round_number, max_rounds) ==
    IF turn = DONE THEN <<DONE, round_number>>
    ELSE IF turn = PRO THEN <<CON, round_number>>
    ELSE IF turn = CON THEN
        IF round_number = 0
        THEN (IF max_rounds = 0 THEN <<MOD, 0>> ELSE <<PRO, 1>>)
        ELSE IF round_number >= max_rounds THEN <<MOD, round_number>>
        ELSE <<PRO, round_number + 1>>
    ELSE IF turn = MOD THEN <<DONE, round_number>>
    ELSE <<DONE, round_number>>

\* DebateController.next_agent on the object: turn and round_number take the
\* returned values (at DONE the method returns early, with the values the
\* object already has)
DebateController_next_agent(self) ==
    LET next == next_agent(self.turn, self.round_number, self.max_rounds)
    IN  [self EXCEPT !.turn = next[1], !.round_number = next[2]]

\* DebateController.add_message, for a message parse_message accepts
DebateController_add_message(self, message) ==
    LET validated_message == parse_message(message)
    IN  [self EXCEPT
            !.messages = Append(@, validated_message),
            !.context = DebateContext_add_message(@, validated_message),
            !.round_number =
                IF "round" \in DOMAIN validated_message /\ validated_message.round > @
                THEN validated_message.round ELSE @]

\* DebateController.__init__
DebateController(topic, max_rounds) ==
    DebateController_add_message(
        [topic |-> topic, max_rounds |-> max_rounds, round_number |-> 0, turn |-> PRO,
         messages |-> <<>>,
         context |-> [DebateContext(topic) EXCEPT !.max_rounds = max_rounds]],
        topic_message(topic))

\* DebateController.to_dict
to_dict(self) ==
    [topic |-> self.topic, round_number |-> self.round_number, turn |-> self.turn,
     max_rounds |-> self.max_rounds, messages |-> self.messages,
     is_complete |-> self.turn = DONE]

RECURSIVE add_messages(_, _, _)
\* from_dict: `for message in data["messages"]: controller.add_message(message)`,
\* from the i-th message on
add_messages(self, messages, i) ==
    IF i > Len(messages) THEN self
    ELSE add_messages(DebateController_add_message(self, messages[i]), messages, i + 1)

\* the default topic message not cleared
from_dict_topic_kept(data) ==
    add_messages(
        [DebateController(data.topic, data.max_rounds) EXCEPT
            !.round_number = data.round_number,
            !.turn = CHOOSE t \in AgentTurnValues : t = data.turn],
        data.messages, 1)

\* DebateController.from_dict.  AgentTurn(data["turn"]) is the member with
\* that value.
from_dict(data) ==
    add_messages(
        [DebateController(data.topic, data.max_rounds) EXCEPT
            !.round_number = data.round_number,
            !.turn = CHOOSE t \in AgentTurnValues : t = data.turn,
            !.messages = <<>>],
        data.messages, 1)

NoController == [topic |-> None]
\* the participant processes, by ROLE; none is running
LoopRoles == {PRO, CON, MOD}
NoLoops == [role \in LoopRoles |-> "off"]
NoCall == [op |-> "none", before |-> <<>>, raised |-> FALSE, value |-> <<>>]

\* the messages handed to DebateController.add_message: the participants'
\* (examples/controller_example.py), a dict with no metadata and a field the
\* protocol does not know, and a dict with no type
ControllerMessages ==
    { argument_message("x", PRO, "ava", r) : r \in 0..MaxNumRounds }
    \cup { argument_message("x", CON, "ben", r) : r \in 0..MaxNumRounds }
    \cup { evaluation_message("x", PRO, "mia"),
           [type |-> "argument", content |-> "x", note |-> "n"],
           [content |-> "x"] }

---------------------------------------------------------------------------
(* Requests the clients issue *)

\* CreateDebateRequest
StartRequests(ids, rounds) ==
    [op : {"start"}, debate_id : ids, topic : Topics, num_rounds : rounds]

\* AddMessageRequest.  metadata is a dict (an omitted one is stored as {}:
\* `request.metadata or {}`); a verdict may name a winner in it
\* (agents/mod/main.py send_message).  The field is Dict[str, Any]: the
\* winner a caller names need not be one of the two debaters.
MessageRequests(ids, senders, contents) ==
    [op : {"message"}, debate_id : ids, sender : senders, role : Role \ {MOD},
     content : contents, metadata : {EmptyDict}]
    \cup
    [op : {"message"}, debate_id : ids, sender : senders, role : {MOD},
     content : contents,
     metadata : {EmptyDict, [winner |-> PRO], [winner |-> CON], [winner |-> MOD]}]

ReadRequests(ids) ==
    [op : {"turn", "status", "debate"}, debate_id : ids]

\* what a client calling the service one request at a time may send
SeqRequests ==
    StartRequests({"d1"}, 0..MaxNumRounds)
    \cup MessageRequests({"d1"}, Senders, Contents)
    \cup ReadRequests({"d1"})

\* what the concurrent clients may send: participant processes (two of them
\* may run for the same role, under the same name) and viewers
RaceRequests ==
    StartRequests({"d1"}, 1..MaxNumRounds)
    \cup MessageRequests({"d1"}, Senders, {"x"})
    \cup ReadRequests({"d1"})

\* the debate each client works on
DebateOf == [c \in Clients |-> IF c = "c1" THEN "d1" ELSE "d2"]

\* what the client of one debate may send while another client works on
\* another debate: creates, with its identifier or with none (the server
\* generates one), and the participants' submissions
TwoRequests(c) ==
    StartRequests({DebateOf[c], None}, {1})
    \cup {r \in MessageRequests({DebateOf[c]}, Senders, {"x"}) :
            r.role # SYSTEM /\ r.metadata = EmptyDict}

---------------------------------------------------------------------------
(* Clients *)

\* a client sends a request; it stays in flight until the server handles it
Send(c, requests) ==
    /\ pending[c] = NoReq
    /\ \E r \in requests : pending' = [pending EXCEPT ![c] = r]
    /\ UNCHANGED <<store, response, next_uuid, controller, returned, loop>>

\* one caller, which waits for each response before it sends again
SendSeq ==
    /\ \A c \in Clients : pending[c] = NoReq
    /\ Send("c1", SeqRequests)

\* every client sends as soon as its previous request is answered
SendRace ==
    \E c \in Clients : Send(c, RaceRequests)

\* the clients of two debates, sending as soon as they are answered
SendTwo ==
    \E c \in Clients : Send(c, TwoRequests(c))

Respond(c, status_code, detail, body) ==
    /\ response' = [client |-> c, request |-> pending[c],
                    status_code |-> status_code, detail |-> detail, body |-> body]
    /\ pending' = [pending EXCEPT ![c] = NoReq]
    /\ UNCHANGED <<controller, returned>>

---------------------------------------------------------------------------
(* routes.py handlers *)

\* POST /api/start.  After the store is written the handler writes the agents'
\* .env files and launches the three participant processes; these touch
\* nothing of the store and reach the server only through later requests (the
\* Clients).  Writing a .env file may fail (mkdir, open): the handler then
\* answers 500 with the debate already stored.
start_debate(c) ==
    /\ pending[c] # NoReq
    /\ pending[c].op = "start"
    /\ next_uuid <= MaxUuid
    /\ LET request == pending[c] IN
       \E debate_id \in DebateIds, env_written \in BOOLEAN :
          /\ IF request.debate_id # None
             THEN debate_id = request.debate_id
             ELSE debate_id \notin DOMAIN debate_sessions   \* generate_debate_id()
          /\ LET debate == [debate_id |-> debate_id, topic |-> request.topic,
                            num_rounds |-> stored_num_rounds(request.num_rounds),
                            status |-> PENDING, winner |-> None]
                 message_id == next_uuid
                 system_message ==
                     MCPMessageRecord(debate_id, message_id, "system", SYSTEM, 0,
                                      request.topic, "system", [type |-> "topic"])
                 initial_turn == AgentTurn(debate_id, 0, PRO, message_id, FALSE)
             IN  /\ debate_sessions' = create_debate_sessions(debate_sessions, debate)
                 /\ debate_messages' =
                        save_message(create_debate_messages(debate_messages, debate),
                                     system_message)
                 /\ agent_turns' = set_agent_turn(agent_turns, initial_turn)
                 /\ next_uuid' = next_uuid + 1
                 /\ IF env_written
                    THEN Respond(c, 201, "created",
                                 [debate_id |-> debate_id,
                                  num_rounds |-> request.num_rounds,
                                  status |-> PENDING])
                    ELSE Respond(c, 500, FAILED_TO_CREATE, EmptyDict)

\* POST /api/message/{debate_id}.  request.role is a Role member (pydantic
\* refuses anything else before the handler runs); nothing between save_message
\* and the return raises, so the 500 path is not taken.
add_message(c) ==
    /\ pending[c] # NoReq
    /\ pending[c].op = "message"
    /\ LET request == pending[c]
           debate_id == request.debate_id
           verdict == add_message_checks(debate_sessions, agent_turns, request)
       IN  IF verdict # OK THEN
               /\ Respond(c, status_code_of(verdict), verdict, EmptyDict)
               /\ UNCHANGED <<store, next_uuid>>
           ELSE
               LET turn == agent_turns[debate_id]
                   message_id == next_uuid
                   message ==
                       MCPMessageRecord(debate_id, message_id, request.sender, request.role,
                           turn.current_round, request.content,
                           message_type_of(request.role, turn.current_round),
                           request.metadata)
               IN  /\ next_uuid <= MaxUuid
                   /\ next_uuid' = next_uuid + 1
                   /\ debate_messages' = save_message(debate_messages, message)
                   /\ debate_sessions' = status_after_message(debate_sessions, message)
                   /\ agent_turns' = turn_after_message(debate_sessions, agent_turns, message)
                   /\ Respond(c, 200, OK, [message_id |-> message_id])

\* GET /api/turn/{debate_id}
get_turn(c) ==
    /\ pending[c] # NoReq
    /\ pending[c].op = "turn"
    /\ LET debate_id == pending[c].debate_id IN
       IF debate_id \notin DOMAIN debate_sessions THEN
           Respond(c, 404, NOT_FOUND, EmptyDict)
       ELSE IF debate_id \notin DOMAIN agent_turns THEN
           Respond(c, 400, NO_TURN, EmptyDict)
       ELSE LET turn == agent_turns[debate_id] IN
           Respond(c, 200, OK,
                   [current_round |-> turn.current_round,
                    next_speaker |-> turn.next_speaker,
                    is_final_turn |-> turn.is_final_turn,
                    status |-> debate_sessions[debate_id].status])
    /\ UNCHANGED <<store, next_uuid>>

\* GET /api/status/{debate_id}
get_status(c) ==
    /\ pending[c] # NoReq
    /\ pending[c].op = "status"
    /\ LET debate_id == pending[c].debate_id IN
       IF debate_id \notin DOMAIN debate_sessions THEN
           Respond(c, 404, NOT_FOUND, EmptyDict)
       ELSE LET debate == debate_sessions[debate_id]
                has_turn == debate_id \in DOMAIN agent_turns
            IN  Respond(c, 200, OK,
                   [status |-> debate.status,
                    current_round |-> IF has_turn THEN agent_turns[debate_id].current_round ELSE 0,
                    next_speaker |-> IF has_turn THEN agent_turns[debate_id].next_speaker ELSE None,
                    message_count |-> IF debate_id \in DOMAIN debate_messages
                                      THEN Len(debate_messages[debate_id]) ELSE 0,
                    winner |-> debate.winner])
    /\ UNCHANGED <<store, next_uuid>>

\* GET /api/debate/{debate_id}  (db.get_debate_with_messages)
get_debate(c) ==
    /\ pending[c] # NoReq
    /\ pending[c].op = "debate"
    /\ LET debate_id == pending[c].debate_id IN
       IF debate_id \notin DOMAIN debate_sessions THEN
           Respond(c, 404, NOT_FOUND, EmptyDict)
       ELSE Respond(c, 200, OK,
                   [debate |-> debate_sessions[debate_id],
                    messages |-> IF debate_id \in DOMAIN debate_messages
                                 THEN debate_messages[debate_id] ELSE <<>>,
                    current_turn |-> IF debate_id \in DOMAIN agent_turns
                                     THEN agent_turns[debate_id] ELSE EmptyDict])
    /\ UNCHANGED <<store, next_uuid>>

\* the default of get_context's `limit` query parameter
ContextLimit == 10

\* messages[-limit:] when limit < len(messages)
last_messages(messages, limit) ==
    IF limit # 0 /\ limit < Len(messages)
    THEN SubSeq(messages, Len(messages) - limit + 1, Len(messages))
    ELSE messages

\* GET /api/context/{debate_id}
get_context(c) ==
    /\ pending[c] # NoReq
    /\ pending[c].op = "context"
    /\ LET debate_id == pending[c].debate_id IN
       IF debate_id \notin DOMAIN debate_sessions THEN
           Respond(c, 404, NOT_FOUND, EmptyDict)
       ELSE Respond(c, 200, OK,
                   [messages |-> last_messages(
                                    IF debate_id \in DOMAIN debate_messages
                                    THEN debate_messages[debate_id] ELSE <<>>,
                                    ContextLimit)])
    /\ UNCHANGED <<store, next_uuid>>

---------------------------------------------------------------------------

Init ==
    /\ debate_sessions = EmptyDict
    /\ debate_messages = EmptyDict
    /\ agent_turns = EmptyDict
    /\ pending = [c \in Clients |-> NoReq]
    /\ response = NoResponse
    /\ next_uuid = 1
    /\ controller = NoController
    /\ returned = NoCall
    /\ loop = NoLoops

\* the request handlers of routes.py
Serve ==
    /\ \E c \in Clients :
          \/ start_debate(c)
          \/ add_message(c)
          \/ get_turn(c)
          \/ get_status(c)
          \/ get_debate(c)
    /\ UNCHANGED loop

Next == SendSeq \/ Serve

Spec == Init /\ [][Next]_vars

NextRace == SendRace \/ Serve

SpecRace == Init /\ [][NextRace]_vars

\* the handlers that write the store
ServeWrites ==
    /\ \E c \in Clients :
          \/ start_debate(c)
          \/ add_message(c)
    /\ UNCHANGED loop

NextTwo == SendTwo \/ ServeWrites

SpecTwo == Init /\ [][NextTwo]_vars

---------------------------------------------------------------------------
(* The calls made on a DebateController *)

\* controller.next_agent()
NextAgent ==
    /\ controller' = DebateController_next_agent(controller)
    /\ returned' = [op |-> "next_agent",
                    before |-> <<controller.turn, controller.round_number>>,
                    raised |-> FALSE,
                    value |-> next_agent(controller.turn, controller.round_number,
                                         controller.max_rounds)]
    /\ UNCHANGED <<server, loop>>

\* controller.add_message(message); a message the protocol refuses raises
\* ValueError before anything is appended
AddMessage ==
    /\ Len(controller.messages) < MaxMessages
    /\ \E message \in ControllerMessages :
          IF is_protocol_message(message)
          THEN /\ controller' = DebateController_add_message(controller, message)
               /\ returned' = [op |-> "add_message",
                               before |-> <<controller.turn, controller.round_number>>,
                               raised |-> FALSE, value |-> <<>>]
          ELSE /\ controller' = controller
               /\ returned' = [op |-> "add_message",
                               before |-> <<controller.turn, controller.round_number>>,
                               raised |-> TRUE, value |-> <<>>]
    /\ UNCHANGED <<server, loop>>

\* controller = DebateController.from_dict(controller.to_dict()): the debate
\* goes on from the reloaded controller
Reload ==
    /\ controller' = from_dict(to_dict(controller))
    /\ returned' = [op |-> "from_dict",
                    before |-> <<controller.turn, controller.round_number>>,
                    raised |-> FALSE, value |-> <<>>]
    /\ UNCHANGED <<server, loop>>

InitController ==
    /\ debate_sessions = EmptyDict
    /\ debate_messages = EmptyDict
    /\ agent_turns = EmptyDict
    /\ pending = [c \in Clients |-> NoReq]
    /\ response = NoResponse
    /\ next_uuid = 1
    /\ \E topic \in Topics, max_rounds \in 0..MaxNumRounds :
          controller = DebateController(topic, max_rounds)
    /\ returned = NoCall
    /\ loop = NoLoops

NextController == NextAgent \/ AddMessage \/ Reload

SpecController == InitController /\ [][NextController]_vars

---------------------------------------------------------------------------
(* The transition functions called directly *)

\* one of the two transition functions is handed a role, a round and a
\* budget: next_agent reads them from the controller it is called on,
\* _determine_next_speaker takes the round and the role and reads the budget
\* from the session.  Neither has a raise statement for a role it does not
\* know: each has a default branch that returns.
CallAdvance ==
    /\ \E fn \in {"next_agent", "_determine_next_speaker"},
          role \in Role \cup {DONE},
          round \in 0..(MaxNumRounds + 1),
          budget \in 0..MaxNumRounds :
          returned' = [op |-> fn,
                       before |-> <<role, round, budget>>,
                       raised |-> FALSE,
                       value |-> IF fn = "next_agent"
                                 THEN next_agent(role, round, budget)
                                 ELSE <<_determine_next_speaker(budget, round, role)>>]
    /\ UNCHANGED <<server, controller, loop>>

SpecAdvance == Init /\ [][CallAdvance]_vars

----------------------------------------------------------------------------
(* The service and a DebateController run side by side on one debate: every
   message the service accepts is handed to the controller, followed by
   next_agent(), as examples/controller_example.py drives the controller *)

\* one caller: it creates the debate d1 once, then submits messages to it
PairRequests ==
    IF "d1" \in DOMAIN debate_sessions
    THEN MessageRequests({"d1"}, Senders, {"x"})
    ELSE StartRequests({"d1"}, 0..(MaxNumRounds + 1))

\* the controller has been handed every message of the log of d1
InStep ==
    /\ "d1" \in DOMAIN debate_sessions
    /\ controller.topic # None
    /\ Len(controller.messages) = Len(debate_messages["d1"])

\* the caller waits until the controller has caught up with the service
SendPair ==
    /\ \A c \in Clients : pending[c] = NoReq
    /\ "d1" \in DOMAIN debate_sessions => InStep
    /\ Send("c1", PairRequests)

\* the protocol message built for a message of the log
ProtocolMessage(m) ==
    IF m.role = MOD
    THEN evaluation_message(m.content,
                            IF "winner" \in DOMAIN m.metadata
                            THEN m.metadata.winner ELSE None,
                            m.sender)
    ELSE argument_message(m.content, m.role, m.sender, m.round)

\* DebateController(topic, max_rounds) with the budget the session stores
ConstructController ==
    /\ "d1" \in DOMAIN debate_sessions
    /\ controller.topic = None
    /\ controller' = DebateController(debate_sessions["d1"].topic,
                                      debate_sessions["d1"].num_rounds)
    /\ returned' = [op |-> "DebateController", before |-> <<>>,
                    raised |-> FALSE, value |-> <<>>]
    /\ UNCHANGED <<server, loop>>

\* controller.add_message(message); controller.next_agent() for the next
\* message of the log the controller has not seen
RunController ==
    /\ "d1" \in DOMAIN debate_sessions
    /\ controller.topic # None
    /\ Len(controller.messages) < Len(debate_messages["d1"])
    /\ LET m == debate_messages["d1"][Len(controller.messages) + 1]
           added == DebateController_add_message(controller, ProtocolMessage(m))
       IN  /\ controller' = DebateController_next_agent(added)
           /\ returned' = [op |-> "next_agent",
                           before |-> <<added.turn, added.round_number>>,
                           raised |-> FALSE,
                           value |-> next_agent(added.turn, added.round_number,
                                                added.max_rounds)]
    /\ UNCHANGED <<server, loop>>

ServePair ==
    /\ start_debate("c1") \/ add_message("c1")
    /\ UNCHANGED loop

NextPair == SendPair \/ ServePair \/ ConstructController \/ RunController

SpecPair == Init /\ [][NextPair]_vars

---------------------------------------------------------------------------
(* The participant processes.  start_debate launches one per role once the
   debate is stored (_launch_agent_process); each runs main(): poll the turn,
   and when the turn is its own fetch the context, generate and submit.  A
   process waits for the answer of each request (httpx is synchronous), so
   the handler's step and the process reading its answer are one step. *)

\* the creator of the debate and the three participant processes
LoopClients == {"c1"} \cup LoopRoles

InitLoops ==
    /\ debate_sessions = EmptyDict
    /\ debate_messages = EmptyDict
    /\ agent_turns = EmptyDict
    /\ pending = [c \in LoopClients |-> NoReq]
    /\ response = NoResponse
    /\ next_uuid = 1
    /\ controller = NoController
    /\ returned = NoCall
    /\ loop = NoLoops

\* the process of role r moves to position pc
goto(r, pc) == loop' = [loop EXCEPT ![r] = pc]

\* the process of role r sends a request and waits for the answer
request(r, req, pc) ==
    /\ pending[r] = NoReq
    /\ pending' = [pending EXCEPT ![r] = req]
    /\ goto(r, pc)
    /\ UNCHANGED <<store, response, next_uuid, controller, returned>>

\* the process of role r fails locally (an exception of the transport or of
\* the model) and moves to position pc
fails(r, pc) ==
    /\ goto(r, pc)
    /\ UNCHANGED <<server, controller, returned>>

\* the debate d1 is created once
CreateDebate ==
    /\ "d1" \notin DOMAIN debate_sessions
    /\ Send("c1", StartRequests({"d1"}, 0..MaxNumRounds))

\* start_debate: with the .env files written the three processes are launched
LaunchAgents ==
    /\ start_debate("c1")
    /\ loop' = IF response'.status_code = 201
               THEN [r \in LoopRoles |-> "sleep"]
               ELSE loop

\* check_turn of mod/main.py: is_our_turn and debate_status from the answer
\* of GET /api/turn, (False, "error") on any exception; pro/main.py's
\* check_turn returns the is_our_turn of it
check_turn(r, answer) ==
    IF answer.status_code = 200
    THEN [is_our_turn |-> answer.body.next_speaker = r,
          debate_status |-> answer.body.status]
    ELSE [is_our_turn |-> FALSE, debate_status |-> "error"]

\* main(), after check_turn: the moderator stops at "finished" or "error"
after_check_turn(r, turn_info) ==
    IF r = MOD /\ turn_info.debate_status \in {FINISHED, "error"} THEN "stopped"
    ELSE IF turn_info.is_our_turn THEN "our_turn"
    ELSE "sleep"

\* every process leaving its loop after its first submission
after_send_message_stops(r) == "stopped"

\* main(), after send_message: pro and con sleep and poll again whatever
\* send_message returned; the moderator leaves its loop whatever it returned
after_send_message(r) == IF r = MOD THEN "stopped" ELSE "sleep"

\* the payload of send_message: the moderator adds the winner that
\* extract_winner finds in the verdict ("pro", "con" or none)
Payloads(r) ==
    [op : {"message"}, debate_id : {"d1"}, sender : Senders, role : {r},
     content : {"x"},
     metadata : IF r = MOD
                THEN {EmptyDict, [winner |-> PRO], [winner |-> CON]}
                ELSE {EmptyDict}]

\* check_turn: GET /api/turn
CheckTurn(r) ==
    /\ loop[r] = "sleep"
    /\ request(r, [op |-> "turn", debate_id |-> "d1"], "check_turn")

TurnAnswered(r) ==
    /\ loop[r] = "check_turn"
    /\ get_turn(r)
    /\ goto(r, after_check_turn(r, check_turn(r, response')))

\* get_context: GET /api/context
GetContext(r) ==
    /\ loop[r] = "our_turn"
    /\ request(r, [op |-> "context", debate_id |-> "d1"], "get_context")

\* `if not messages: ... continue`
ContextAnswered(r) ==
    /\ loop[r] = "get_context"
    /\ get_context(r)
    /\ goto(r, IF response'.status_code = 200 /\ response'.body.messages # <<>>
               THEN "generate" ELSE "sleep")

\* build_prompt, generate_response, parse_response, then send_message's POST
SendMessage(r) ==
    /\ loop[r] = "generate"
    /\ \E payload \in Payloads(r) : request(r, payload, "send_message")

MessageAnswered(r) ==
    /\ loop[r] = "send_message"
    /\ add_message(r)
    /\ goto(r, after_send_message(r))

\* the steps of the processes when every request is delivered and the
\* model answers
LoopStep(r) ==
    \/ CheckTurn(r)
    \/ TurnAnswered(r)
    \/ GetContext(r)
    \/ ContextAnswered(r)
    \/ SendMessage(r)
    \/ MessageAnswered(r)

NextLoops == CreateDebate \/ LaunchAgents \/ \E r \in LoopRoles : LoopStep(r)

\* each process keeps running and the server answers every request
FairLoops == \A r \in LoopRoles : WF_vars(LoopStep(r))

SpecLoops == InitLoops /\ [][NextLoops]_vars /\ FairLoops

\* check_turn's GET raises (the server is not reached)
CheckTurnFails(r) ==
    /\ loop[r] = "sleep"
    /\ fails(r, after_check_turn(r, [is_our_turn |-> FALSE, debate_status |-> "error"]))

\* get_context's GET raises: it returns [], the turn is skipped
GetContextFails(r) ==
    /\ loop[r] = "our_turn"
    /\ fails(r, "sleep")

\* generate_response raises: main()'s `except Exception` sleeps and goes on
GenerateFails(r) ==
    /\ loop[r] = "generate"
    /\ fails(r, "sleep")

\* send_message's POST raises: send_message returns False
SendMessageFails(r) ==
    /\ loop[r] = "generate"
    /\ fails(r, after_send_message(r))

LoopFailure(r) ==
    \/ CheckTurnFails(r)
    \/ GetContextFails(r)
    \/ GenerateFails(r)
    \/ SendMessageFails(r)

NextLoopsFail == NextLoops \/ \E r \in LoopRoles : LoopFailure(r)

SpecLoopsFail == InitLoops /\ [][NextLoopsFail]_vars

---------------------------------------------------------------------------
(* Properties *)

\* the roles of the participant (non-SYSTEM) messages of a log, in log order
IsParticipant(m) == m.role # SYSTEM
ParticipantMessages(log) == SelectSeq(log, IsParticipant)
ParticipantRoles(log) ==
    [i \in 1..Len(ParticipantMessages(log)) |-> ParticipantMessages(log)[i].role]

\* position i of FIRST, SECOND, (FIRST, SECOND) x R, JUDGE
ExpectedRole(i, R) ==
    IF i = 2 * (R + 1) + 1 THEN MOD
    ELSE IF i % 2 = 1 THEN PRO ELSE CON

\* the step serves the request client c has in flight
Served(c) == pending[c] # NoReq /\ pending'[c] = NoReq

\* C1: in every reachable state the roles of the accepted participant messages
\* of a debate, in log order, are a prefix of pro, con, (pro, con) x R, mod,
\* where R is the session's round budget (num_rounds).
C1_Sequencing ==
    \A d \in DOMAIN debate_messages :
        LET roles == ParticipantRoles(debate_messages[d])
            R == debate_sessions[d].num_rounds
        IN  /\ Len(roles) <= 2 * (R + 1) + 1
            /\ \A i \in 1..Len(roles) : roles[i] = ExpectedRole(i, R)

\* a debate with one rebuttal round played to the end: pro, con, pro, con, mod
C1_Witness ==
    \E d \in DOMAIN debate_messages :
        /\ debate_sessions[d].num_rounds = 1
        /\ ParticipantRoles(debate_messages[d]) = <<PRO, CON, PRO, CON, MOD>>

\* C2 (as claimed): a submission whose role is not the Turn State's next
\* speaker is answered with the turn violation and changes nothing.
C2_WrongRoleIsTurnViolation ==
    [][\A c \in Clients :
        (/\ Served(c)
         /\ pending[c].op = "message"
         /\ pending[c].debate_id \in DOMAIN agent_turns
         /\ agent_turns[pending[c].debate_id].next_speaker # pending[c].role)
        => (/\ response'.detail = NOT_YOUR_TURN
            /\ response'.status_code = 400
            /\ UNCHANGED store)]_vars

\* C2 (amended): on a debate that is not FINISHED, a submission whose role is
\* not the next speaker is answered with the turn violation; on every debate,
\* finished or not, such a submission is rejected (400) and changes nothing.
C2_WrongRoleRejected ==
    [][\A c \in Clients :
        (/\ Served(c)
         /\ pending[c].op = "message"
         /\ pending[c].debate_id \in DOMAIN agent_turns
         /\ agent_turns[pending[c].debate_id].next_speaker # pending[c].role)
        => (/\ response'.status_code = 400
            /\ UNCHANGED store
            /\ response'.detail =
                  IF debate_sessions[pending[c].debate_id].status = FINISHED
                  THEN DEBATE_FINISHED ELSE NOT_YOUR_TURN)]_vars

\* SECOND has just submitted before FIRST on a fresh debate and was refused:
\* the log still holds the announcement only
C2_Witness ==
    /\ response.detail = NOT_YOUR_TURN
    /\ response.request.role = CON
    /\ Len(debate_messages[response.request.debate_id]) = 1
    /\ debate_sessions[response.request.debate_id].status = PENDING

\* C3 (as claimed): of two submissions in flight for the same debate with the
\* role that is the next speaker, the one served first is accepted and the
\* other is then a turn violation.
C3_SecondIsTurnViolation ==
    [][\A c1, c2 \in Clients :
        (/\ c1 # c2
         /\ pending[c1].op = "message"
         /\ pending[c2].op = "message"
         /\ pending[c2].debate_id = pending[c1].debate_id
         /\ pending[c2].role = pending[c1].role
         /\ add_message_checks(debate_sessions, agent_turns, pending[c1]) = OK
         /\ Served(c1))
        => (/\ response'.status_code = 200
            /\ Len(debate_messages'[pending[c1].debate_id])
                 = Len(debate_messages[pending[c1].debate_id]) + 1
            /\ pending'[c2] = pending[c2]
            /\ add_message_checks(debate_sessions', agent_turns', pending[c2])
                 = NOT_YOUR_TURN)]_vars

\* C3 (amended): the one served first is accepted (exactly one message is
\* appended) and the other is then rejected: as a turn violation when the role
\* is pro or con, as a submission to a finished debate when the role is mod.
C3_NoDoubleAccept ==
    [][\A c1, c2 \in Clients :
        (/\ c1 # c2
         /\ pending[c1].op = "message"
         /\ pending[c2].op = "message"
         /\ pending[c2].debate_id = pending[c1].debate_id
         /\ pending[c2].role = pending[c1].role
         /\ add_message_checks(debate_sessions, agent_turns, pending[c1]) = OK
         /\ Served(c1))
        => (/\ response'.status_code = 200
            /\ Len(debate_messages'[pending[c1].debate_id])
                 = Len(debate_messages[pending[c1].debate_id]) + 1
            /\ pending'[c2] = pending[c2]
            /\ add_message_checks(debate_sessions', agent_turns', pending[c2])
                 = IF pending[c1].role = MOD THEN DEBATE_FINISHED ELSE NOT_YOUR_TURN)]_vars

\* a submission has just been accepted while the same submission of the other
\* client is still in flight
C3_Witness ==
    /\ response.request.op = "message"
    /\ response.status_code = 200
    /\ \E c2 \in Clients \ {response.client} : pending[c2] = response.request
    /\ LET log == debate_messages[response.request.debate_id]
       IN  log[Len(log)].message_id = response.body.message_id

\* C4: a log holds at most one mod message, and a mod message is the last
\* message of its log.
C4_OneJudgeLast ==
    \A d \in DOMAIN debate_messages :
        LET log == debate_messages[d]
        IN  /\ Cardinality({i \in 1..Len(log) : log[i].role = MOD}) <= 1
            /\ \A i \in 1..Len(log) : log[i].role = MOD => i = Len(log)

\* the judge has spoken and a further submission by the judge was just refused
C4_Witness ==
    /\ response.request.op = "message"
    /\ response.request.role = MOD
    /\ response.status_code = 400
    /\ LET log == debate_messages[response.request.debate_id]
       IN  log[Len(log)].role = MOD

\* C5: the status of a debate is FINISHED exactly when its log holds a mod
\* message.
C5_FinishedIffJudge ==
    \A d \in DOMAIN debate_sessions :
        debate_sessions[d].status = FINISHED
        <=> \E i \in 1..Len(debate_messages[d]) : debate_messages[d][i].role = MOD

\* a finished debate whose verdict named a winner
C5_Witness ==
    \E d \in DOMAIN debate_sessions :
        /\ debate_sessions[d].status = FINISHED
        /\ debate_sessions[d].winner = CON
        /\ debate_messages[d][Len(debate_messages[d])].role = MOD

ConsistentSnapshot(debate, messages, turn) ==
    LET last == messages[Len(messages)]
    IN  /\ Len(messages) >= 1
        /\ last.role = SYSTEM =>
              /\ debate.status = PENDING
              /\ turn.last_message_id = last.message_id
              /\ turn.next_speaker = PRO /\ turn.current_round = 0
        /\ last.role = PRO =>
              /\ debate.status = ACTIVE
              /\ turn.last_message_id = last.message_id
              /\ turn.next_speaker = CON /\ turn.current_round = last.round
        /\ last.role = CON =>
              /\ debate.status = ACTIVE
              /\ turn.last_message_id = last.message_id
              /\ turn.next_speaker \in {PRO, MOD}
              /\ turn.next_speaker = PRO => turn.current_round = last.round + 1
              /\ turn.next_speaker = MOD => turn.current_round = last.round
        /\ last.role = MOD => debate.status = FINISHED
        /\ debate.status = FINISHED => last.role = MOD

\* C7: every answer to a read served between the submissions shows a message
\* together with the turn and status that follow it: GET /debate shows a log
\* whose last message is the one the turn and the status account for, GET /turn
\* shows the initial turn exactly while the status is PENDING, and GET /status
\* shows a message count that matches the status, the next speaker and the round.
C7_AtomicVisibility ==
    /\ (response.request.op = "debate" /\ response.status_code = 200) =>
          ConsistentSnapshot(response.body.debate, response.body.messages,
                             response.body.current_turn)
    /\ (response.request.op = "turn" /\ response.status_code = 200) =>
          LET b == response.body
          IN  /\ b.status = PENDING <=> (b.next_speaker = PRO /\ b.current_round = 0)
              /\ b.status = FINISHED => b.next_speaker = MOD
    /\ (response.request.op = "status" /\ response.status_code = 200) =>
          LET b == response.body
              n == b.message_count - 1
          IN  /\ b.status = PENDING <=> n = 0
              /\ b.next_speaker = PRO => (n % 2 = 0 /\ b.current_round = n \div 2)
              /\ b.next_speaker = CON => (n % 2 = 1 /\ b.current_round = n \div 2)
              /\ (b.next_speaker = MOD /\ b.status = ACTIVE) => n = 2 * (b.current_round + 1)
              /\ b.status = FINISHED => n = 2 * (b.current_round + 1) + 1

\* a read of the debate was served, showing accepted messages, while a
\* submission of the other client is in flight
C7_Witness ==
    /\ response.request.op = "debate"
    /\ response.status_code = 200
    /\ Len(response.body.messages) >= 3
    /\ \E c \in Clients \ {response.client} : pending[c].op = "message"

\* the (turn, round) DebateController.next_agent reaches from (pro, 0) when it
\* is applied once per participant message of the log
RECURSIVE Replay(_, _)
Replay(n, max_rounds) ==
    IF n = 0 THEN <<PRO, 0>>
    ELSE LET before == Replay(n - 1, max_rounds)
         IN  next_agent(before[1], before[2], max_rounds)

Replayed(d) ==
    Replay(Len(ParticipantMessages(debate_messages[d])), debate_sessions[d].num_rounds)

HeldTurn(d) == <<agent_turns[d].next_speaker, agent_turns[d].current_round>>

\* C8 (as claimed): in every reachable state the replay of the log, the prefix
\* that ends with the mod message included, gives the held (next speaker, round).
C8_ReplayEqualsHeldTurn ==
    \A d \in DOMAIN agent_turns : Replayed(d) = HeldTurn(d)

\* C8 (amended): while the debate is not FINISHED the replay of the log gives
\* the held (next speaker, round); once the mod message is accepted the held
\* turn stays at (mod, last round) while the replay gives (done, last round).
C8_ReplayEqualsHeldTurnUntilJudge ==
    \A d \in DOMAIN agent_turns :
        /\ debate_sessions[d].status # FINISHED => Replayed(d) = HeldTurn(d)
        /\ debate_sessions[d].status = FINISHED =>
              /\ Replayed(d) = <<DONE, agent_turns[d].current_round>>
              /\ HeldTurn(d) = <<MOD, debate_sessions[d].num_rounds>>

\* a debate whose rebuttal round is played: the replay and the held turn both
\* say the judge is next, in round 1
C8_Witness ==
    \E d \in DOMAIN agent_turns :
        /\ debate_sessions[d].status = ACTIVE
        /\ Len(debate_messages[d]) = 5
        /\ Replayed(d) = <<MOD, 1>>

\* C9 (as claimed): a create with an identifier that already exists is
\* answered with a conflict (409) and leaves the sessions, the logs and the
\* turns as they were.
C9_CreateExistingConflicts ==
    [][\A c \in Clients :
        (/\ Served(c)
         /\ pending[c].op = "start"
         /\ pending[c].debate_id \in DOMAIN debate_sessions)
        => (/\ response'.status_code = 409
            /\ UNCHANGED store)]_vars

\* C10 (as claimed): a submission with empty content by the role whose turn it
\* is is answered with a validation error (422) and leaves the sessions, the
\* logs and the turns as they were.
C10_EmptyContentRejected ==
    [][\A c \in Clients :
        (/\ Served(c)
         /\ pending[c].op = "message"
         /\ pending[c].content = ""
         /\ add_message_checks(debate_sessions, agent_turns, pending[c]) = OK)
        => (/\ response'.status_code = 422
            /\ UNCHANGED store)]_vars

\* the step serves a submission of client c and accepts it
Accepted(c) ==
    /\ Served(c)
    /\ pending[c].op = "message"
    /\ response'.status_code = 200

\* the step serves a create of client c and answers with the new session
Created(c) ==
    /\ Served(c)
    /\ pending[c].op = "start"
    /\ response'.status_code = 201

\* C11 (as claimed): a debate created with round budget R plays rounds 0..R.
\* The session's num_rounds is the only place the budget is kept, so this is:
\* a successful create with budget R stores R, and after SECOND's accepted
\* message in round r the Turn State is (pro, r+1, not final) while r is below
\* the budget and (mod, r, final) once r has reached it.
C11_AllRoundsPlayed ==
    [][\A c \in Clients :
        /\ Created(c) =>
              debate_sessions'[response'.body.debate_id].num_rounds
                  = pending[c].num_rounds
        /\ (Accepted(c) /\ pending[c].role = CON) =>
              LET d == pending[c].debate_id
                  r == agent_turns[d].current_round
                  R == debate_sessions[d].num_rounds
                  after == agent_turns'[d]
              IN  IF r < R
                  THEN /\ after.next_speaker = PRO
                       /\ after.current_round = r + 1
                       /\ after.is_final_turn = FALSE
                  ELSE /\ after.next_speaker = MOD
                       /\ after.current_round = r
                       /\ after.is_final_turn = TRUE]_vars

\* C12 (as claimed): the winner of a session is unset, pro or con, and is set
\* only when the status is FINISHED; an accepted mod message records the winner
\* its metadata carries, and leaves the winner unset when it carries none.
C12_WinnerDeclared ==
    /\ [](\A d \in DOMAIN debate_sessions :
            /\ debate_sessions[d].winner \in {None, PRO, CON}
            /\ debate_sessions[d].winner # None => debate_sessions[d].status = FINISHED)
    /\ [][\A c \in Clients :
            (Accepted(c) /\ pending[c].role = MOD) =>
                debate_sessions'[pending[c].debate_id].winner =
                    IF "winner" \in DOMAIN pending[c].metadata
                    THEN pending[c].metadata.winner
                    ELSE None]_vars

\* C13: right after a successful create the debate has status PENDING, its log
\* is exactly the SYSTEM announcement at round 0 carrying the topic, and its
\* Turn State is (pro, round 0, not final).
C13_CreatedDebate ==
    [][\A c \in Clients :
        Created(c) =>
            LET d == response'.body.debate_id
                log == debate_messages'[d]
                turn == agent_turns'[d]
            IN  /\ debate_sessions'[d].status = PENDING
                /\ Len(log) = 1
                /\ log[1].role = SYSTEM
                /\ log[1].round = 0
                /\ log[1].content = pending[c].topic
                /\ turn.next_speaker = PRO
                /\ turn.current_round = 0
                /\ turn.is_final_turn = FALSE]_vars

\* a create has just been answered with the new session, after earlier
\* messages had been accepted: the log holds the announcement only
C13_Witness ==
    /\ response.request.op = "start"
    /\ response.status_code = 201
    /\ next_uuid >= 4
    /\ Len(debate_messages[response.body.debate_id]) = 1
    /\ debate_sessions[response.body.debate_id].status = PENDING

StatusRank(status) ==
    IF status = PENDING THEN 0 ELSE IF status = ACTIVE THEN 1 ELSE 2

\* C14 (as claimed): the status of a debate is PENDING exactly while its log
\* holds no participant message, an accepted message on a PENDING debate makes
\* it ACTIVE, and no step moves the status of a debate back to an earlier one
\* of PENDING, ACTIVE, FINISHED.
C14_StatusLifecycle ==
    /\ [](\A d \in DOMAIN debate_sessions :
            debate_sessions[d].status = PENDING
            <=> ParticipantMessages(debate_messages[d]) = <<>>)
    /\ [][/\ \A c \in Clients :
               (Accepted(c) /\ debate_sessions[pending[c].debate_id].status = PENDING)
               => debate_sessions'[pending[c].debate_id].status = ACTIVE
          /\ \A d \in DOMAIN debate_sessions :
               StatusRank(debate_sessions'[d].status)
                   >= StatusRank(debate_sessions[d].status)]_vars

C16_ExistingIdsReadable ==
    /\ [](/\ DOMAIN debate_messages = DOMAIN debate_sessions
          /\ DOMAIN agent_turns = DOMAIN debate_sessions)
    /\ [][\A c \in Clients :
            (Served(c) /\ pending[c].op \in {"turn", "debate"}) =>
                IF pending[c].debate_id \in DOMAIN debate_sessions
                THEN response'.status_code = 200
                ELSE /\ response'.status_code = 404
                     /\ response'.detail = NOT_FOUND]_vars

\* the turn of a finished debate has just been read
C16_Witness ==
    /\ response.request.op = "turn"
    /\ response.status_code = 200
    /\ response.body.status = FINISHED
    /\ response.body.next_speaker = MOD

\* the session, the log and the Turn State of identifier B are the same (or
\* equally absent) before and after the step
SameDebate(B) ==
    /\ B \in DOMAIN debate_sessions' <=> B \in DOMAIN debate_sessions
    /\ B \in DOMAIN debate_messages' <=> B \in DOMAIN debate_messages
    /\ B \in DOMAIN agent_turns' <=> B \in DOMAIN agent_turns
    /\ B \in DOMAIN debate_sessions => debate_sessions'[B] = debate_sessions[B]
    /\ B \in DOMAIN debate_messages => debate_messages'[B] = debate_messages[B]
    /\ B \in DOMAIN agent_turns => agent_turns'[B] = agent_turns[B]

\* C17: a served create or submission for identifier A, accepted or rejected,
\* while requests for other identifiers are in flight, leaves the session, the
\* log and the Turn State of every other identifier B as they were.  A is the
\* identifier the request names; for a create that names none it is the
\* generated one, an identifier that did not exist.
C17_DebatesIndependent ==
    [][\A c \in Clients :
        (Served(c) /\ pending[c].op \in {"start", "message"}) =>
            \E A \in DebateIds :
                /\ IF pending[c].debate_id # None
                   THEN A = pending[c].debate_id
                   ELSE A \notin DOMAIN debate_sessions
                /\ \A B \in DebateIds \ {A} : SameDebate(B)]_vars

\* two debates in progress: a submission to one has just been accepted while
\* the other, with accepted messages of its own, has a submission in flight
C17_Witness ==
    /\ response.request.op = "message"
    /\ response.status_code = 200
    /\ \E B \in DOMAIN debate_messages \ {response.request.debate_id} :
          /\ Len(debate_messages[B]) >= 3
          /\ \E c \in Clients : pending[c].op = "message" /\ pending[c].debate_id = B

\* the (turn, round) pairs the next n calls of next_agent return, from a
\* controller at (turn, round_number) with budget max_rounds
RECURSIVE Continue(_, _, _, _)
Continue(turn, round_number, max_rounds, n) ==
    IF n = 0 THEN <<>>
    ELSE LET next == next_agent(turn, round_number, max_rounds)
         IN  <<next>> \o Continue(next[1], next[2], max_rounds, n - 1)

ContinueLen == 4

\* C18: the controller DebateController.from_dict makes of c.to_dict() has the
\* turn, round_number, max_rounds, topic and message sequence of c, and the
\* calls of next_agent that follow return from it what they return from c.
C18_ExportRoundTrip ==
    [][returned'.op = "from_dict" =>
        /\ controller'.turn = controller.turn
        /\ controller'.round_number = controller.round_number
        /\ controller'.max_rounds = controller.max_rounds
        /\ controller'.topic = controller.topic
        /\ controller'.messages = controller.messages
        /\ Continue(controller'.turn, controller'.round_number,
                    controller'.max_rounds, ContinueLen)
             = Continue(controller.turn, controller.round_number,
                        controller.max_rounds, ContinueLen)]_vars

\* a controller in mid-debate (SECOND is next, in a rebuttal round), holding
\* as many messages as it may, one of them with a round, has just been
\* reloaded from its export; its context holds the topic message twice
C18_Witness ==
    /\ returned.op = "from_dict"
    /\ controller.turn = CON
    /\ controller.round_number >= 1
    /\ Len(controller.messages) = MaxMessages
    /\ \E i \in 1..Len(controller.messages) : "round" \in DOMAIN controller.messages[i]
    /\ Len(controller.context.messages) = Len(controller.messages) + 1

\* the reference transition function of the Turn State Machine
advance(role, round, budget) ==
    IF role = PRO THEN <<CON, round>>
    ELSE IF role = CON /\ round = 0 THEN
        (IF budget = 0 THEN <<MOD, 0>> ELSE <<PRO, 1>>)
    ELSE IF role = CON THEN
        (IF round >= budget THEN <<MOD, round>> ELSE <<PRO, round + 1>>)
    ELSE <<DONE, round>>

\* the service's computation: the next speaker (None, "no next speaker", read
\* as DONE) and the next round
service_advance(role, round, budget) ==
    LET next_speaker == _determine_next_speaker(budget, round, role)
    IN  <<IF next_speaker = None THEN DONE ELSE next_speaker,
          next_round_after(role, round, budget)>>

\* C19: whatever the controller's turn (pro, con or mod), round_number and
\* max_rounds, a call of next_agent returns advance of them and leaves the
\* controller at that turn and round; the service's next speaker and next
\* round for the same role, round and budget are the same pair.
C19_TransitionIsAdvance ==
    [][(returned'.op = "next_agent" /\ controller.turn # DONE) =>
        LET expected == advance(controller.turn, controller.round_number,
                                controller.max_rounds)
        IN  /\ returned'.value = expected
            /\ <<controller'.turn, controller'.round_number>> = expected
            /\ service_advance(controller.turn, controller.round_number,
                               controller.max_rounds) = expected]_vars

\* next_agent has just sent SECOND on to a further round because the round
\* it was in, a rebuttal round, was below the budget
C19_Witness ==
    /\ returned.op = "next_agent"
    /\ returned.before[1] = CON
    /\ returned.before[2] >= 1
    /\ returned.value = <<PRO, returned.before[2] + 1>>

\* C20: a call of next_agent on a controller whose turn is DONE returns
\* (DONE, the same round), raises nothing and leaves the turn, the
\* round_number and the message list as they were, however often it is made.
C20_DoneIsTerminal ==
    [][(returned'.op = "next_agent" /\ controller.turn = DONE) =>
        /\ returned'.value = <<DONE, controller.round_number>>
        /\ returned'.raised = FALSE
        /\ controller'.turn = DONE
        /\ controller'.round_number = controller.round_number
        /\ controller'.messages = controller.messages]_vars

\* next_agent was called on a controller that was already DONE
C20_Witness ==
    /\ returned.op = "next_agent"
    /\ returned.before[1] = DONE
    /\ returned.value[1] = DONE
    /\ controller.turn = DONE

\* C21 (as claimed): a transition function handed a role that is none of
\* pro, con, mod, done (the SYSTEM role) raises; it returns no next speaker.
C21_UnknownRoleRaises ==
    (/\ returned.op \in {"next_agent", "_determine_next_speaker"}
     /\ returned.before[1] \notin AgentTurnValues)
    => returned.raised = TRUE

\* C22: in every reachable state the final-turn flag of every Turn State is
\* true exactly when its next speaker is mod.
C22_FinalIffJudgeNext ==
    \A d \in DOMAIN agent_turns :
        agent_turns[d].is_final_turn = TRUE <=> agent_turns[d].next_speaker = MOD

\* the judge is next on a debate in progress, and the flag is set
C22_Witness ==
    \E d \in DOMAIN agent_turns :
        /\ agent_turns[d].next_speaker = MOD
        /\ agent_turns[d].is_final_turn = TRUE
        /\ debate_sessions[d].status = ACTIVE

\* the last message of the log of debate d
LastMessage(d) == debate_messages[d][Len(debate_messages[d])]

C24_RoundNumbering ==
    /\ [](\A d \in DOMAIN debate_messages :
            LET msgs == ParticipantMessages(debate_messages[d])
            IN  /\ \A i, j \in 1..Len(msgs) :
                      i < j => msgs[i].round <= msgs[j].round
                /\ \A i, j \in 1..Len(msgs) :
                      (/\ i # j
                       /\ msgs[i].role \in {PRO, CON}
                       /\ msgs[i].role = msgs[j].role)
                      => msgs[i].round # msgs[j].round
                /\ \A i, j \in 1..Len(msgs) :
                      (/\ msgs[i].role = PRO
                       /\ msgs[j].role = CON
                       /\ msgs[i].round = msgs[j].round)
                      => i < j)
    /\ [][\A c \in Clients :
            Accepted(c) =>
                debate_messages'[pending[c].debate_id]
                               [Len(debate_messages'[pending[c].debate_id])].round
                    = agent_turns[pending[c].debate_id].current_round]_vars

\* a log with the opening statements and one rebuttal round: rounds 0, 0, 1, 1
C24_Witness ==
    \E d \in DOMAIN debate_messages :
        LET msgs == ParticipantMessages(debate_messages[d])
        IN  /\ Len(msgs) >= 4
            /\ <<msgs[1].round, msgs[2].round, msgs[3].round, msgs[4].round>>
                  = <<0, 0, 1, 1>>

\* C25: every log holds exactly one SYSTEM message, its first, at round 0, and
\* a served submission with the SYSTEM role is never accepted: it is refused
\* and the sessions, the logs and the turns stay as they were.
C25_OneAnnouncement ==
    /\ [](\A d \in DOMAIN debate_messages :
            LET log == debate_messages[d]
            IN  /\ Len(log) >= 1
                /\ log[1].role = SYSTEM
                /\ log[1].round = 0
                /\ \A i \in 2..Len(log) : log[i].role # SYSTEM)
    /\ [][\A c \in Clients :
            (Served(c) /\ pending[c].op = "message" /\ pending[c].role = SYSTEM)
            => (/\ response'.status_code # 200
                /\ UNCHANGED store)]_vars

\* a submission with the SYSTEM role to a debate in progress was just refused
C25_Witness ==
    /\ response.request.op = "message"
    /\ response.request.role = SYSTEM
    /\ response.status_code = 400
    /\ debate_sessions[response.request.debate_id].status = ACTIVE
    /\ Len(debate_messages[response.request.debate_id]) >= 2

\* C30 (as claimed): in every reachable controller state, whether built by the
\* constructor, by add_message or by from_dict, the messages of the
\* controller's context are the controller's messages.
C30_ContextMirrorsMessages ==
    controller.context.messages = controller.messages

\* C29 (as claimed): the current round of every Turn State lies between 0 and
\* the stored round budget of its debate, no message of the log has a round
\* above the budget, and in every step the current round does not decrease
\* and rises by at most 1, rising only when a con message is accepted.
C29_RoundBound ==
    /\ [](\A d \in DOMAIN agent_turns :
            /\ 0 <= agent_turns[d].current_round
            /\ agent_turns[d].current_round <= debate_sessions[d].num_rounds
            /\ \A i \in 1..Len(debate_messages[d]) :
                  debate_messages[d][i].round <= debate_sessions[d].num_rounds)
    /\ [][\A d \in DOMAIN agent_turns :
            /\ agent_turns'[d].current_round >= agent_turns[d].current_round
            /\ agent_turns'[d].current_round <= agent_turns[d].current_round + 1
            /\ agent_turns'[d].current_round > agent_turns[d].current_round
               => \E c \in Clients :
                     /\ Accepted(c)
                     /\ pending[c].debate_id = d
                     /\ pending[c].role = CON]_vars

\* C28: whenever the controller has been handed every message the service
\* accepted, the controller's (turn, round_number) is the (next speaker,
\* current round) the service holds, as long as the debate is not FINISHED, and
\* the controller's turn is DONE exactly when the service's status is FINISHED.
C28_AdvanceAgrees ==
    InStep =>
        /\ debate_sessions["d1"].status # FINISHED
           => <<controller.turn, controller.round_number>> = HeldTurn("d1")
        /\ controller.turn = DONE <=> debate_sessions["d1"].status = FINISHED

\* a debate with a rebuttal round played to its end on both sides
C28_Witness ==
    /\ InStep
    /\ debate_sessions["d1"].num_rounds >= 1
    /\ debate_sessions["d1"].status = FINISHED
    /\ controller.turn = DONE
    /\ Len(controller.messages) = 2 * (debate_sessions["d1"].num_rounds + 1) + 2

\* the process of role r has read the turn as its own and has not yet
\* finished the iteration
InTurn(pc) == pc \in {"our_turn", "get_context", "generate", "send_message"}

\* C26 (as claimed): a participant process that ends an iteration in which
\* the turn was its own without its message being accepted (the context, the
\* generation or the submission failed) goes on polling; the moderator's
\* process like the debaters'.
C26_FailedTurnRetried ==
    [][\A r \in LoopRoles :
          (InTurn(loop[r]) /\ ~InTurn(loop'[r]) /\ ~Accepted(r))
          => loop'[r] = "sleep"]_vars

\* the three processes are running on the debate d1
Launched == \A r \in LoopRoles : loop[r] # "off"

\* the debate d1 is FINISHED with 2*(R+1)+1 participant messages in its log
FinishedInFull ==
    /\ "d1" \in DOMAIN debate_sessions
    /\ debate_sessions["d1"].status = FINISHED
    /\ Len(ParticipantMessages(debate_messages["d1"]))
          = 2 * (debate_sessions["d1"].num_rounds + 1) + 1

\* C27: with one process per role running, every request delivered and
\* answered, and each process weakly fair, the debate d1 whose stored budget
\* is R becomes FINISHED with exactly 2*(R+1)+1 accepted participant
\* messages, and stays so.
C27_DebateFinishes == Launched ~> []FinishedInFull

\* the debate with a rebuttal round has been played to its end by the processes
C27_Witness ==
    /\ Launched
    /\ FinishedInFull
    /\ debate_sessions["d1"].num_rounds >= 1
    /\ loop[MOD] = "stopped"

====
